---- MODULE Spec2Model ----
(***************************************************************************)
(* Vi-mode key handling of claudechic (widgets/input/vi_mode.py).          *)
(*                                                                         *)
(* ViHandler.handle_key is modelled as the operator handle_key(h, ev) on a *)
(* record h that holds the ViState fields, the registered mode-changed     *)
(* callback with its log, and the TextArea the handler drives.  The TextArea is the external Text *)
(* Buffer of spec section 6 (textual.widgets.TextArea); its primitives are *)
(* modelled after that widget: the cursor is the end of the selection,     *)
(* cursor moves collapse the selection and close the current undo batch,   *)
(* edits are recorded in an undo history.                                  *)
(***************************************************************************)
EXTENDS Integers, Sequences, FiniteSets, TLC

VARIABLES
    mode,              \* ViState.mode
    pending_operator,  \* ViState.pending_operator ("" is None)
    pending_count,     \* ViState.pending_count (sequence of characters)
    pending_motion,    \* ViState.pending_motion ("" is None)
    pending_g,         \* ViState.pending_g
    last_change,       \* ViState.last_change (<<>> is None)
    yank_buffer,       \* ViState.yank_buffer (sequence of characters)
    text_area,         \* ViHandler.text_area (the TextArea's state)
    mode_changed_callback, \* ViHandler._mode_changed_callback (NoCallback is None)
    reported,          \* the mode each callable received last ("" before the first)
    ret                \* outcome of the last handle_key call

vars == <<mode, pending_operator, pending_count, pending_motion, pending_g,
          last_change, yank_buffer, text_area, mode_changed_callback, reported, ret>>

----------------------------------------------------------------------------
(* Bounds of the model *)

\* longest pending count the explored key sequences build
MaxCountLen == 2
\* most undo batches the explored histories keep
MaxUndo == 1

----------------------------------------------------------------------------
(* Characters *)

NL == "\n"
INSERT == "INSERT"
NORMAL == "NORMAL"
VISUAL == "VISUAL"
ViMode == {INSERT, NORMAL, VISUAL}

DecimalDigits == {"0", "1", "2", "3", "4", "5", "6", "7", "8", "9"}
\* str.isdigit() also accepts digits that int() rejects, e.g. superscript two
SuperTwo == "sup2"
\* digits without 0: a 0 that is never taken for a count digit
IsDigit_never_zero(c) == c \in (DecimalDigits \ {"0"}) \cup {SuperTwo}
IsDigit(c) == c \in DecimalDigits \cup {SuperTwo}
IsSpace(c) == c \in {" ", NL}
\* regex \w of the buffer's word pattern: everything but blanks and punctuation
IsWordChar(c) == c \notin {" ", NL, "$", "^", ".", "-"}

DigitVal(c) == CASE c = "0" -> 0 [] c = "1" -> 1 [] c = "2" -> 2 [] c = "3" -> 3
                 [] c = "4" -> 4 [] c = "5" -> 5 [] c = "6" -> 6 [] c = "7" -> 7
                 [] c = "8" -> 8 [] c = "9" -> 9 [] OTHER -> 0

RECURSIVE IntOf(_)
IntOf(ds) == IF ds = <<>> THEN 0
             ELSE 10 * IntOf(SubSeq(ds, 1, Len(ds) - 1)) + DigitVal(ds[Len(ds)])

----------------------------------------------------------------------------
(* Document: the text is one sequence of characters, lines split at NL *)

Max2(a, b) == IF a >= b THEN a ELSE b
Min2(a, b) == IF a <= b THEN a ELSE b
SetMin(S) == CHOOSE x \in S : \A y \in S : x <= y
SetMax(S) == CHOOSE x \in S : \A y \in S : x >= y

LocLT(a, b) == a[1] < b[1] \/ (a[1] = b[1] /\ a[2] < b[2])
LocMin(a, b) == IF LocLT(b, a) THEN b ELSE a
LocMax(a, b) == IF LocLT(a, b) THEN b ELSE a

NLSet(text) == {i \in 1..Len(text) : text[i] = NL}
line_count(text) == Cardinality(NLSet(text)) + 1

\* offset (characters before it) of the start of row r
LineStart(text, r) ==
    IF r = 0 THEN 0
    ELSE CHOOSE i \in NLSet(text) : Cardinality({j \in NLSet(text) : j < i}) = r - 1

LineEnd(text, r) ==
    IF r >= line_count(text) - 1 THEN Len(text) ELSE LineStart(text, r + 1) - 1

get_line(text, r) == SubSeq(text, LineStart(text, r) + 1, LineEnd(text, r))
LineLen(text, r) == LineEnd(text, r) - LineStart(text, r)

OffsetOf(text, loc) == LineStart(text, loc[1]) + loc[2]

LocOf(text, off) == <<Cardinality({i \in NLSet(text) : i <= off}),
                      off - SetMax({0} \cup {i \in NLSet(text) : i <= off})>>

document_end(text) == LocOf(text, Len(text))

\* a location clamped into the document (selection validation / range clamping)
Clamp(text, loc) ==
    IF loc[1] > line_count(text) - 1 THEN document_end(text)
    ELSE <<Max2(loc[1], 0), Max2(0, Min2(loc[2], LineLen(text, Max2(loc[1], 0))))>>

get_text_range(text, a, b) ==
    SubSeq(text, OffsetOf(text, Clamp(text, LocMin(a, b))) + 1,
                 OffsetOf(text, Clamp(text, LocMax(a, b))))

\* where text inserted at top ends
EndOfInsert(top, ins) ==
    IF \E i \in 1..Len(ins) : ins[i] = NL
    THEN <<top[1] + Cardinality(NLSet(ins)), Len(ins) - SetMax(NLSet(ins))>>
    ELSE <<top[1], top[2] + Len(ins)>>

\* Document.replace_range: the new text, where the inserted text ends, what was replaced
ReplaceOffsets(text, o1, o2, ins, end_location) ==
    [text |-> SubSeq(text, 1, o1) \o ins \o SubSeq(text, o2 + 1, Len(text)),
     end_location |-> end_location,
     replaced_text |-> SubSeq(text, o1 + 1, o2)]

ReplaceClamped(text, top, bot, ins) ==
    ReplaceOffsets(text, OffsetOf(text, top), OffsetOf(text, bot), ins, EndOfInsert(top, ins))

replace_range(text, a, b, ins) ==
    ReplaceClamped(text, Clamp(text, LocMin(a, b)), Clamp(text, LocMax(a, b)), ins)

----------------------------------------------------------------------------
(* TextArea: selection, cursor and edit history                             *)
(* t.start/t.cursor are selection.start/selection.end (the cursor),         *)
(* t.x the remembered column of vertical moves, t.undo/t.redo the batches   *)
(* of the edit history, t.force its pending checkpoint, t.prev_repl whether *)
(* the last recorded edit replaced text, t.late whether the checkpoint      *)
(* timer ran out since the last edit.                                       *)

cursor_location(t) == t.cursor
IsEmptySel(t) == t.start = t.cursor
selected_text(t) == get_text_range(t.text, t.start, t.cursor)

\* TextArea.selection = Selection(a, b)
SetSelection(t, a, b) ==
    [t EXCEPT !.start = Clamp(t.text, a), !.cursor = Clamp(t.text, b)]

\* TextArea.move_cursor: collapses the selection, closes the undo batch
MoveTo(t, l, record_width) ==
    [t EXCEPT !.start = l, !.cursor = l,
              !.x = IF record_width THEN l[2] ELSE t.x,
              !.force = TRUE]
MoveCursor(t, loc, record_width) == MoveTo(t, Clamp(t.text, loc), record_width)
move_cursor(t, loc) == MoveCursor(t, loc, TRUE)

\* EditHistory.record
Record(t, e) ==
    IF e.ins = <<>> /\ e.rep = <<>> THEN t
    ELSE
    LET is_repl == e.rep # <<>>
        multi == Len(e.ins) > 1 \/ (\E i \in 1..Len(e.ins) : e.ins[i] = NL)
        fresh == t.force \/ t.undo = <<>> \/ multi \/ is_repl # t.prev_repl \/ t.late
    IN [t EXCEPT !.undo = IF fresh THEN Append(t.undo, <<e>>)
                          ELSE [t.undo EXCEPT ![Len(t.undo)] = Append(@, e)],
                 !.redo = <<>>, !.prev_repl = is_repl,
                 !.force = multi, !.late = FALSE]

\* Edit.do: a selection end moved with the text behind the edit
Adjust(l, bot, end_location) ==
    <<IF bot[1] <= l[1] THEN l[1] + end_location[1] - bot[1] ELSE l[1],
      IF bot[1] = l[1] /\ bot[2] <= l[2] THEN l[2] + end_location[2] - bot[2] ELSE l[2]>>

\* the TextArea on a new text with a validated selection
Placed(t, text, s, c) ==
    [t EXCEPT !.text = text, !.start = s, !.cursor = c, !.x = c[2]]

\* Edit.do on the result rr of the replacement
Applied(t, bot, rr, maintain) ==
    Placed(t, rr.text,
           Clamp(rr.text, IF maintain THEN Adjust(t.start, bot, rr.end_location)
                          ELSE rr.end_location),
           Clamp(rr.text, IF maintain THEN Adjust(t.cursor, bot, rr.end_location)
                          ELSE rr.end_location))

DoEdit(t, ins, a, b, maintain) ==
    Applied(t, LocMax(a, b), replace_range(t.text, a, b, ins), maintain)

\* TextArea.edit: do the edit and record it
Edited(t, top, bot, ins, rr, maintain) ==
    Record(Applied(t, bot, rr, maintain),
           [top |-> top, bot |-> bot, ins |-> ins, rep |-> rr.replaced_text,
            endloc |-> rr.end_location, osel |-> <<t.start, t.cursor>>,
            maintain |-> maintain])

Edit(t, ins, a, b, maintain) ==
    Edited(t, LocMin(a, b), LocMax(a, b), ins, replace_range(t.text, a, b, ins), maintain)

insert(t, ins) == Edit(t, ins, t.cursor, t.cursor, TRUE)
delete(t, a, b) == Edit(t, <<>>, a, b, TRUE)
DeleteViaKeyboard(t, a, b) == Edit(t, <<>>, a, b, FALSE)

RECURSIVE UndoEdits(_, _)
UndoEdits(text, batch) ==
    IF batch = <<>> THEN text
    ELSE UndoEdits(replace_range(text, batch[Len(batch)].top, batch[Len(batch)].endloc,
                                 batch[Len(batch)].rep).text,
                   SubSeq(batch, 1, Len(batch) - 1))

\* the batch undone: its text, the selection its first edit started from
Undone(t, batch, text) ==
    [Placed(t, text, Clamp(text, batch[1].osel[1]), Clamp(text, batch[1].osel[2]))
        EXCEPT !.undo = SubSeq(t.undo, 1, Len(t.undo) - 1),
               !.redo = Append(t.redo, batch)]

action_undo(t) ==
    IF t.undo = <<>> THEN t
    ELSE Undone(t, t.undo[Len(t.undo)], UndoEdits(t.text, t.undo[Len(t.undo)]))

RECURSIVE RedoEdits(_, _)
RedoEdits(t, batch) ==
    IF batch = <<>> THEN t
    ELSE RedoEdits(DoEdit(t, batch[1].ins, batch[1].top, batch[1].bot, batch[1].maintain),
                   Tail(batch))

action_redo(t) ==
    IF t.redo = <<>> THEN t
    ELSE [RedoEdits(t, t.redo[Len(t.redo)])
             EXCEPT !.redo = SubSeq(t.redo, 1, Len(t.redo) - 1),
                    !.undo = Append(t.undo, t.redo[Len(t.redo)]),
                    !.force = TRUE]

----------------------------------------------------------------------------
(* TextArea: cursor motions and keyboard deletions *)

get_cursor_left_location(t) ==
    IF t.cursor[2] = 0
    THEN (IF t.cursor[1] = 0 THEN <<0, 0>>
          ELSE <<t.cursor[1] - 1, LineLen(t.text, t.cursor[1] - 1)>>)
    ELSE <<t.cursor[1], t.cursor[2] - 1>>

get_cursor_right_location(t) ==
    IF t.cursor = document_end(t.text) THEN t.cursor
    ELSE IF t.cursor[2] = LineLen(t.text, t.cursor[1]) THEN <<t.cursor[1] + 1, 0>>
    ELSE <<t.cursor[1], t.cursor[2] + 1>>

\* with a selection and no extension the cursor goes to the selection's edge
action_cursor_left(t) ==
    move_cursor(t, IF IsEmptySel(t) THEN get_cursor_left_location(t)
                   ELSE LocMin(t.start, t.cursor))

action_cursor_right(t) ==
    move_cursor(t, IF IsEmptySel(t) THEN get_cursor_right_location(t)
                   ELSE LocMax(t.start, t.cursor))

\* up on the first line goes to the document start, down on the last to its end
action_cursor_up(t) ==
    MoveCursor(t, IF t.cursor[1] = 0 THEN <<0, 0>> ELSE <<t.cursor[1] - 1, t.x>>, FALSE)

action_cursor_down(t) ==
    MoveCursor(t, IF t.cursor[1] = line_count(t.text) - 1 THEN document_end(t.text)
                  ELSE <<t.cursor[1] + 1, t.x>>, FALSE)

get_cursor_line_end_location(t) == <<t.cursor[1], LineLen(t.text, t.cursor[1])>>
action_cursor_line_end(t) == move_cursor(t, get_cursor_line_end_location(t))

\* ^ : index of the first non-blank character of a line, 0 when there is none
FirstNonBlank(line) ==
    IF \A i \in 1..Len(line) : IsSpace(line[i]) THEN 0
    ELSE SetMin({i \in 0..(Len(line) - 1) : ~IsSpace(line[i + 1])})

\* the line start of the text buffer contract: column 0 of the cursor's row
get_cursor_line_start_location(t) == <<t.cursor[1], 0>>
action_cursor_line_start(t) == move_cursor(t, get_cursor_line_start_location(t))

\* the word pattern (?<=\W)(?=\w)|(?<=\w)(?=\W) matches in line at column k
WordBreak(line, k) == IsWordChar(line[k]) # IsWordChar(line[k + 1])

\* line[c:].lstrip() starts at this column, line[:c].rstrip() ends at it
SkipBlanksRight(line, c) ==
    SetMin({k \in c..(Len(line) - 1) : ~IsSpace(line[k + 1])} \cup {Len(line)})
SkipBlanksLeft(line, c) == SetMax({k \in 1..c : ~IsSpace(line[k])} \cup {0})

\* the first match of the word pattern after column q, the line's end without one
WordRightCol(line, q) ==
    SetMin({k \in (q + 1)..(Len(line) - 1) : WordBreak(line, k)} \cup {Len(line)})
\* the last match of the word pattern before column q, column 0 without one
WordLeftCol(line, q) == SetMax({k \in 1..(q - 1) : WordBreak(line, k)} \cup {0})

WordRightIn(loc, line, last_row) ==
    IF loc[1] < last_row /\ loc[2] = Len(line) THEN <<loc[1] + 1, 0>>
    ELSE <<loc[1], WordRightCol(line, SkipBlanksRight(line, loc[2]))>>
get_cursor_word_right_location(t) ==
    WordRightIn(t.cursor, get_line(t.text, t.cursor[1]), line_count(t.text) - 1)

get_cursor_word_left_location(t) ==
    IF t.cursor[1] > 0 /\ t.cursor[2] = 0
    THEN <<t.cursor[1] - 1, LineLen(t.text, t.cursor[1] - 1)>>
    ELSE <<t.cursor[1], WordLeftCol(get_line(t.text, t.cursor[1]),
                                    SkipBlanksLeft(get_line(t.text, t.cursor[1]), t.cursor[2]))>>

action_cursor_word_right(t) ==
    IF t.cursor = document_end(t.text) THEN t
    ELSE move_cursor(t, get_cursor_word_right_location(t))

action_cursor_word_left(t) ==
    IF t.cursor = <<0, 0>> THEN t
    ELSE move_cursor(t, get_cursor_word_left_location(t))

\* delete the selection, or the character after / before the cursor
action_delete_right(t) ==
    DeleteViaKeyboard(t, t.start,
                      IF IsEmptySel(t) THEN get_cursor_right_location(t) ELSE t.cursor)

action_delete_left(t) ==
    DeleteViaKeyboard(t, t.start,
                      IF IsEmptySel(t) THEN get_cursor_left_location(t) ELSE t.cursor)

action_delete_to_end_of_line(t) ==
    DeleteViaKeyboard(t, t.cursor, get_cursor_line_end_location(t))

\* move_cursor_relative(columns, record_width=False)
MoveColumns(t, columns) == MoveCursor(t, <<t.cursor[1], t.cursor[2] + columns>>, FALSE)

\* delete the lines the selection touches, then restore the column
action_delete_line(t) ==
    LET top == LocMin(t.start, t.cursor)
        bot == LocMax(t.start, t.cursor)
    IN MoveColumns(DeleteViaKeyboard(t, <<top[1], 0>>,
                       <<IF top[1] # bot[1] /\ bot[2] = 0 THEN bot[1] ELSE bot[1] + 1, 0>>),
                   bot[2])

----------------------------------------------------------------------------
(* ViState and ViHandler helpers                                            *)
(* h holds the ViState fields, h.ta the TextArea, h.notified the modes the  *)
(* mode-changed callback received during the call, h.seen the ViState each  *)
(* of those callbacks could read, h.ret the call's outcome                  *)

NoChar == ""

\* a reset that forgets to clear the count
reset_pending_keeps_count(h) ==
    [h EXCEPT !.pending_operator = "", !.pending_motion = "", !.pending_g = FALSE]

reset_pending(h) ==
    [h EXCEPT !.pending_operator = "", !.pending_count = <<>>,
              !.pending_motion = "", !.pending_g = FALSE]

\* int(pending_count) raises ValueError on a digit that is no decimal digit
CountRaises(h) == \E i \in 1..Len(h.pending_count) : h.pending_count[i] \notin DecimalDigits
\* a count that is read as 1 whatever was typed
get_count_ignored(h) == 1
get_count(h) == IF h.pending_count # <<>> THEN IntOf(h.pending_count) ELSE 1

\* the ViState fields a callback can read when it is called
StateOf(h) ==
    [mode |-> h.mode, pending_operator |-> h.pending_operator,
     pending_count |-> h.pending_count, pending_motion |-> h.pending_motion,
     pending_g |-> h.pending_g]

\* nothing registered, and the callables a host may register: two ordinary
\* ones and one whose truth value is False
NoCallback == "none"
Callbacks == {"cb", "other", "falsy"}
\* "if self._mode_changed_callback:" is a truth test
Truthy(callback) == callback \in {"cb", "other"}

\* a mode change that does not notify
set_mode_silent(h, m) == [h EXCEPT !.mode = m]

\* _set_mode with _notify_mode_change
set_mode(h, m) ==
    IF h.mode # m
    THEN IF Truthy(h.mode_changed_callback)
         THEN [h EXCEPT !.mode = m, !.notified = Append(h.notified, m),
                        !.seen = Append(h.seen, [StateOf(h) EXCEPT !.mode = m])]
         ELSE [h EXCEPT !.mode = m]
    ELSE h

set_selection(h, a, b) == [h EXCEPT !.ta = SetSelection(h.ta, a, b)]

\* the call returns True / returns False / raises
Consumed(h) == [h EXCEPT !.ret = "true"]
\* a key passed on after the callback was told the mode
NotConsumed_notifies(h) == [h EXCEPT !.ret = "false", !.notified = <<h.mode>>]
NotConsumed(h) == [h EXCEPT !.ret = "false"]
Raised(h) == [h EXCEPT !.ret = "raise"]
Done(h) == Consumed(reset_pending(h))

\* _move_to_word_end: the first offset from pos on whose character is (not) a blank
SkipWhile(text, pos, space) ==
    SetMin({i \in pos..(Len(text) - 1) : IsSpace(text[i + 1]) # space}
           \cup {Max2(pos, Len(text))})

WordEndAt(t, pos) == move_cursor(t, LocOf(t.text, Max2(pos - 1, 0)))
move_to_word_end(t) ==
    WordEndAt(t, SkipWhile(t.text, SkipWhile(t.text, SkipWhile(t.text,
                     OffsetOf(t.text, t.cursor), FALSE), TRUE), FALSE))

\* the TextArea actions the handler repeats count times
Prim(name, t) ==
    CASE name = "left" -> action_cursor_left(t)
      [] name = "right" -> action_cursor_right(t)
      [] name = "down" -> action_cursor_down(t)
      [] name = "up" -> action_cursor_up(t)
      [] name = "word_right" -> action_cursor_word_right(t)
      [] name = "word_left" -> action_cursor_word_left(t)
      [] name = "word_end" -> move_to_word_end(t)
      [] name = "delete_right" -> action_delete_right(t)
      [] name = "delete_left" -> action_delete_left(t)

\* for _ in range(n): action(); a repetition that changes nothing ends the loop
RECURSIVE Repeat(_, _, _)
Again(name, n, t, t1) == IF t1 = t THEN t ELSE Repeat(name, n - 1, t1)
Repeat(name, n, t) == IF n <= 0 THEN t ELSE Again(name, n, t, Prim(name, t))

\* str.find(char, from) and str.rfind(char, 0, to) on a line, -1 when absent
Find(line, ch, from) ==
    IF \E i \in from..(Len(line) - 1) : line[i + 1] = ch
    THEN SetMin({i \in from..(Len(line) - 1) : line[i + 1] = ch})
    ELSE -1
RFind(line, ch, to) ==
    SetMax({i \in 0..(Min2(to, Len(line)) - 1) : line[i + 1] = ch} \cup {-1})

\* a step back that is forgotten
BackOne_stays(t) == t

\* the cursor one column back, unless at column 0
BackOne(t) ==
    IF t.cursor[2] > 0 THEN move_cursor(t, <<t.cursor[1], t.cursor[2] - 1>>) ELSE t

\* a forward search whose t lands on the character, as f does
CharForward_lands_on(t, motion, idx) ==
    IF idx >= 0 THEN move_cursor(t, <<t.cursor[1], Max2(t.cursor[2], idx)>>) ELSE t

\* _execute_char_motion: f/t and F/T on the index the search found
CharForward(t, motion, idx) ==
    IF idx >= 0
    THEN move_cursor(t, <<t.cursor[1], Max2(t.cursor[2], IF motion = "f" THEN idx ELSE idx - 1)>>)
    ELSE t
CharBackward(t, motion, idx) ==
    IF idx >= 0
    THEN move_cursor(t, <<t.cursor[1], Min2(t.cursor[2], IF motion = "F" THEN idx ELSE idx + 1)>>)
    ELSE t

execute_char_motion(h, motion, ch) ==
    [h EXCEPT !.ta =
        IF motion = "r" THEN BackOne(insert(action_delete_right(h.ta), <<ch>>))
        ELSE IF motion \in {"f", "t"}
        THEN CharForward(h.ta, motion,
                         Find(get_line(h.ta.text, h.ta.cursor[1]), ch, h.ta.cursor[2] + 1))
        ELSE CharBackward(h.ta, motion,
                          RFind(get_line(h.ta.text, h.ta.cursor[1]), ch, h.ta.cursor[2]))]

\* an operator whose yank is recorded as if it were a change
Operate_records_yank(h, sel, op, a, b, change) ==
    [(IF op = "c" THEN set_mode(h, INSERT) ELSE h)
        EXCEPT !.yank_buffer = selected_text(sel),
               !.ta = IF op = "y" THEN move_cursor(SetSelection(sel, a, a), a)
                      ELSE delete(sel, a, b),
               !.last_change = change]

\* the shared tail of the line and motion operators: sel is the TextArea with
\* the span (a, b) selected, h1 the handler after the deletion
Changed(h1, op, change) ==
    [(IF op = "c" THEN set_mode(h1, INSERT) ELSE h1) EXCEPT !.last_change = change]
Operate(h, sel, op, a, b, change) ==
    IF op = "y"
    THEN [h EXCEPT !.yank_buffer = selected_text(sel),
                   !.ta = move_cursor(SetSelection(sel, a, a), a)]
    ELSE Changed([h EXCEPT !.yank_buffer = selected_text(sel), !.ta = delete(sel, a, b)],
                 op, change)

ApplyOperator(h, t, op, a, b, change) ==
    IF op \in {"y", "d", "c"} THEN Operate(h, SetSelection(t, a, b), op, a, b, change)
    ELSE [h EXCEPT !.ta = t]

\* _execute_line_operator: t1 is the TextArea at the line's start, t3 at its end
IncludeBreak(h, t2) ==
    IF h.ta.cursor[1] < line_count(t2.text) - 1 THEN action_cursor_right(t2) ELSE t2
LineOperator(h, op, line_start, t3) ==
    ApplyOperator(h, t3, op, line_start, t3.cursor, <<IF op = "d" THEN "dd" ELSE "cc">>)
LineEndFrom(h, op, t1) ==
    LineOperator(h, op, t1.cursor, IncludeBreak(h, action_cursor_line_end(t1)))
\* a line operator whose span starts at the cursor instead of the line start
execute_line_operator_from_cursor(h, op) == LineEndFrom(h, op, h.ta)
execute_line_operator(h, op) == LineEndFrom(h, op, action_cursor_line_start(h.ta))

\* _execute_operator_motion: t1 is the TextArea after the motion
OperatorSpan(h, op, motion, t1) ==
    ApplyOperator(h, t1, op, LocMin(h.ta.cursor, t1.cursor), LocMax(h.ta.cursor, t1.cursor),
                  <<op, motion>>)
execute_operator_motion(h, op, motion) ==
    OperatorSpan(h, op, motion,
                 CASE motion = "word_right" -> action_cursor_word_right(h.ta)
                   [] motion = "word_left" -> action_cursor_word_left(h.ta)
                   [] motion = "line_end" -> action_cursor_line_end(h.ta)
                   [] motion = "line_start" -> action_cursor_line_start(h.ta)
                   [] OTHER -> h.ta)

\* a replay that runs x whatever was recorded, and records it
replay_change_as_x(h, change) ==
    [h EXCEPT !.ta = action_delete_right(h.ta), !.last_change = <<"x">>]

\* _replay_change
replay_change(h, change) ==
    CASE change = <<"x">> -> [h EXCEPT !.ta = action_delete_right(h.ta)]
      [] change = <<"X">> -> [h EXCEPT !.ta = action_delete_left(h.ta)]
      [] change = <<"D">> -> [h EXCEPT !.ta = action_delete_to_end_of_line(h.ta)]
      [] change = <<"C">> ->
            set_mode([h EXCEPT !.ta = action_delete_to_end_of_line(h.ta)], INSERT)
      [] change = <<"s">> -> set_mode([h EXCEPT !.ta = action_delete_right(h.ta)], INSERT)
      [] change = <<"S">> ->
            set_mode([h EXCEPT !.ta = action_delete_line(action_cursor_line_start(h.ta))],
                     INSERT)
      [] change \in {<<"dd">>, <<"cc">>} ->
            execute_line_operator(h, IF change = <<"dd">> THEN "d" ELSE "c")
      [] Len(change) = 2 /\ change[1] \in {"d", "c"} ->
            execute_operator_motion(h, change[1], change[2])
      [] OTHER -> h

----------------------------------------------------------------------------
(* ViHandler key handlers; ev.key is the key name, ev.ch the character      *)
(* (NoChar is None)                                                         *)

\* "Mode switching": i I a A o O v
ModeSwitchChars == {"i", "I", "a", "A", "o", "O", "v"}
Entered(h1, ch) ==
    IF ch = "v" THEN set_selection(h1, h1.ta.cursor, h1.ta.cursor) ELSE h1
\* mode-switch keys that all start a selection
ModeSwitch_all_visual(h, ch) ==
    Done(set_selection(set_mode(h, VISUAL), h.ta.cursor, h.ta.cursor))

ModeSwitch(h, ch) ==
    Done(Entered(set_mode([h EXCEPT !.ta =
        CASE ch = "I" -> action_cursor_line_start(h.ta)
          [] ch = "a" -> IF h.ta.cursor[2] < LineLen(h.ta.text, h.ta.cursor[1])
                         THEN move_cursor(h.ta, <<h.ta.cursor[1], h.ta.cursor[2] + 1>>)
                         ELSE h.ta
          [] ch = "A" -> action_cursor_line_end(h.ta)
          [] ch = "o" -> insert(action_cursor_line_end(h.ta), <<NL>>)
          [] ch = "O" -> action_cursor_up(insert(action_cursor_line_start(h.ta), <<NL>>))
          [] OTHER -> h.ta],
        IF ch = "v" THEN VISUAL ELSE INSERT), ch))

\* "Navigation" keys whose action is repeated count times
RepeatedMotion(ev) ==
    CASE ev.ch = "h" \/ ev.key = "left" -> "left"
      [] ev.ch = "l" \/ ev.key = "right" -> "right"
      [] ev.ch = "j" \/ ev.key = "down" -> "down"
      [] ev.ch = "k" \/ ev.key = "up" -> "up"
      [] ev.ch = "w" -> "word_right"
      [] ev.ch = "b" -> "word_left"
      [] ev.ch = "e" -> "word_end"
      [] OTHER -> ""

\* for _ in range(state.get_count()): action(); then the change is recorded
Counted(h, name, change) ==
    IF CountRaises(h) THEN Raised(h)
    ELSE Done([h EXCEPT !.ta = Repeat(name, get_count(h), h.ta), !.last_change = change])

\* ^ : line start, then the first non-blank character
ToFirstNonBlank(t1) ==
    IF \E i \in 1..LineLen(t1.text, t1.cursor[1]) : ~IsSpace(get_line(t1.text, t1.cursor[1])[i])
    THEN move_cursor(t1, <<t1.cursor[1], FirstNonBlank(get_line(t1.text, t1.cursor[1]))>>)
    ELSE t1
FirstNonBlankMotion(t) == ToFirstNonBlank(action_cursor_line_start(t))

\* "Immediate operators with pending operator"
OperatorMotions == {"w", "b", "$", "0"}
MotionOf(ch) ==
    CASE ch = "w" -> "word_right" [] ch = "b" -> "word_left"
      [] ch = "$" -> "line_end" [] ch = "0" -> "line_start"
\* an unknown motion that leaves the operator waiting
OperatorPending_keeps_waiting(h, ch) ==
    IF ch \in OperatorMotions
    THEN Done(execute_operator_motion(h, h.pending_operator, MotionOf(ch)))
    ELSE Consumed(h)

OperatorPending(h, ch) ==
    IF ch \in OperatorMotions
    THEN Done(execute_operator_motion(h, h.pending_operator, MotionOf(ch)))
    ELSE Done(h)

\* "Standalone editing commands": x X D C s S
StandaloneChars == {"x", "X", "D", "C", "s", "S"}
Standalone(h, ch) ==
    IF ch \in {"x", "X"}
    THEN Counted(h, IF ch = "x" THEN "delete_right" ELSE "delete_left", <<ch>>)
    ELSE Done([(IF ch = "D" THEN h ELSE set_mode(h, INSERT))
                  EXCEPT !.ta = CASE ch \in {"D", "C"} -> action_delete_to_end_of_line(h.ta)
                                  [] ch = "s" -> action_delete_right(h.ta)
                                  [] ch = "S" ->
                                        action_delete_line(action_cursor_line_start(h.ta)),
                         !.last_change = <<ch>>])

\* a paste that does not look whether the register holds anything
Paste_unguarded(h, ch) ==
    Done([h EXCEPT !.ta = insert(
             IF ch = "p"
             THEN move_cursor(h.ta, <<h.ta.cursor[1],
                      Min2(h.ta.cursor[2] + 1, LineLen(h.ta.text, h.ta.cursor[1]))>>)
             ELSE h.ta,
             h.yank_buffer)])

\* a paste that empties the register it pasted
Paste_clears_register(h, ch) == [Paste_unguarded(h, ch) EXCEPT !.yank_buffer = <<>>]

\* p and P
Paste(h, ch) ==
    IF h.yank_buffer = <<>> THEN Done(h)
    ELSE Done([h EXCEPT !.ta = insert(
                  IF ch = "p"
                  THEN move_cursor(h.ta, <<h.ta.cursor[1],
                           Min2(h.ta.cursor[2] + 1, LineLen(h.ta.text, h.ta.cursor[1]))>>)
                  ELSE h.ta,
                  h.yank_buffer)])

\* a join that puts no space between the lines
Join_without_space(h) ==
    IF h.ta.cursor[1] < line_count(h.ta.text) - 1
    THEN Done([h EXCEPT !.ta = action_delete_right(action_cursor_line_end(h.ta))])
    ELSE Done(h)

\* J
Join(h) ==
    IF h.ta.cursor[1] < line_count(h.ta.text) - 1
    THEN Done([h EXCEPT !.ta =
                   insert(action_delete_right(action_cursor_line_end(h.ta)), <<" ">>)])
    ELSE Done(h)

\* a second key after g that is not g and leaves the composition as it was
SecondG_keeps_pending(h, ev) ==
    IF ev.ch = "g" THEN Done([h EXCEPT !.ta = move_cursor(h.ta, <<0, 0>>)])
    ELSE Consumed([h EXCEPT !.pending_g = FALSE])

\* "Handle pending 'g' commands": the key after a bare g
SecondG(h, ev) ==
    IF ev.ch = "g" THEN Done([h EXCEPT !.ta = move_cursor(h.ta, <<0, 0>>)])
    ELSE Done(h)

\* an awaited character that is still read as a count digit
AwaitedChar_counts_digits(h, ev) ==
    IF ev.ch # NoChar /\ IsDigit(ev.ch)
    THEN Consumed([h EXCEPT !.pending_count = Append(h.pending_count, ev.ch)])
    ELSE IF ev.ch # NoChar THEN Done(execute_char_motion(h, h.pending_motion, ev.ch))
    ELSE Done(h)

\* "Handle pending character motion": the key after f F t T r
AwaitedChar(h, ev) ==
    IF ev.ch # NoChar THEN Done(execute_char_motion(h, h.pending_motion, ev.ch))
    ELSE Done(h)

handle_normal_key(h, ev) ==
    IF h.pending_g THEN SecondG(h, ev)
    ELSE IF h.pending_motion # "" THEN AwaitedChar(h, ev)
    ELSE IF ev.ch # NoChar /\ IsDigit(ev.ch) /\ (h.pending_count # <<>> \/ ev.ch # "0")
    THEN Consumed([h EXCEPT !.pending_count = Append(h.pending_count, ev.ch)])
    ELSE IF ev.ch \in ModeSwitchChars THEN ModeSwitch(h, ev.ch)
    ELSE IF RepeatedMotion(ev) # "" THEN Counted(h, RepeatedMotion(ev), h.last_change)
    ELSE IF ev.ch = "0" THEN Done([h EXCEPT !.ta = action_cursor_line_start(h.ta)])
    ELSE IF ev.ch = "$" THEN Done([h EXCEPT !.ta = action_cursor_line_end(h.ta)])
    ELSE IF ev.ch = "^" THEN Done([h EXCEPT !.ta = FirstNonBlankMotion(h.ta)])
    ELSE IF ev.ch = "g" THEN Consumed([h EXCEPT !.pending_g = TRUE])
    ELSE IF ev.ch = "G"
    THEN Done([h EXCEPT !.ta = move_cursor(h.ta, document_end(h.ta.text))])
    ELSE IF ev.ch \in {"f", "F", "t", "T"} THEN Consumed([h EXCEPT !.pending_motion = ev.ch])
    ELSE IF ev.ch \in {"d", "c", "y"}
    THEN IF h.pending_operator = ev.ch THEN Done(execute_line_operator(h, ev.ch))
         ELSE Consumed([h EXCEPT !.pending_operator = ev.ch])
    ELSE IF h.pending_operator # "" THEN OperatorPending(h, ev.ch)
    ELSE IF ev.ch \in StandaloneChars THEN Standalone(h, ev.ch)
    ELSE IF ev.ch \in {"p", "P"} THEN Paste(h, ev.ch)
    ELSE IF ev.ch = "u" THEN Done([h EXCEPT !.ta = action_undo(h.ta)])
    ELSE IF ev.key = "ctrl+r" THEN Done([h EXCEPT !.ta = action_redo(h.ta)])
    ELSE IF ev.ch = "."
    THEN IF h.last_change # <<>> THEN Done(replay_change(h, h.last_change)) ELSE Done(h)
    ELSE IF ev.ch = "J" THEN Join(h)
    ELSE IF ev.ch = "r" THEN Consumed([h EXCEPT !.pending_motion = "r"])
    ELSE Done(h)

\* Visual-mode navigation: the TextArea action each key runs
VisualMotion(ev, t) ==
    CASE ev.ch = "h" \/ ev.key = "left" -> action_cursor_left(t)
      [] ev.ch = "l" \/ ev.key = "right" -> action_cursor_right(t)
      [] ev.ch = "j" \/ ev.key = "down" -> action_cursor_down(t)
      [] ev.ch = "k" \/ ev.key = "up" -> action_cursor_up(t)
      [] ev.ch = "w" -> action_cursor_word_right(t)
      [] ev.ch = "b" -> action_cursor_word_left(t)
      [] ev.ch = "$" -> action_cursor_line_end(t)
      [] ev.ch = "0" -> action_cursor_line_start(t)
IsVisualMotion(ev) ==
    \/ ev.ch \in {"h", "l", "j", "k", "w", "b", "$", "0"}
    \/ ev.key \in {"left", "right", "down", "up"}

\* a selection re-anchored at the cursor the motion started from
Extend_from_cursor(h, t1) ==
    Consumed([h EXCEPT !.ta = SetSelection(t1, h.ta.cursor, t1.cursor)])

\* self._set_selection(start, ta.cursor_location) after the motion
Extend(h, t1) == Consumed([h EXCEPT !.ta = SetSelection(t1, h.ta.start, t1.cursor)])

\* a Visual operator that deletes without saving what it deletes
VisualOperator_drops_text(h, ch) ==
    Done(set_mode([h EXCEPT !.ta = delete(h.ta, h.ta.start, h.ta.cursor)],
                  IF ch = "c" THEN INSERT ELSE NORMAL))

\* "Operators on selection": d, x and c
VisualOperator(h, ch) ==
    Done(set_mode([h EXCEPT !.yank_buffer = selected_text(h.ta),
                            !.ta = delete(h.ta, h.ta.start, h.ta.cursor)],
                  IF ch = "c" THEN INSERT ELSE NORMAL))

handle_visual_key(h, ev) ==
    IF IsVisualMotion(ev) THEN Extend(h, VisualMotion(ev, h.ta))
    ELSE IF ev.ch \in {"d", "x", "c"} THEN VisualOperator(h, ev.ch)
    ELSE IF ev.ch = "y"
    THEN Done(set_mode([h EXCEPT !.yank_buffer = selected_text(h.ta),
                                 !.ta = move_cursor(SetSelection(h.ta, h.ta.start, h.ta.start),
                                                    h.ta.start)],
                       NORMAL))
    ELSE Consumed(h)

\* ViHandler.handle_key
Dispatch(h, ev) ==
    IF h.mode = INSERT
    THEN IF ev.key = "escape"
         THEN Consumed([reset_pending(set_mode(h, NORMAL)) EXCEPT !.ta = BackOne(h.ta)])
         ELSE NotConsumed(h)
    ELSE IF h.mode = VISUAL
    THEN IF ev.key = "escape"
         THEN Done(set_selection(set_mode(h, NORMAL), h.ta.cursor, h.ta.cursor))
         ELSE handle_visual_key(h, ev)
    ELSE handle_normal_key(h, ev)

\* one call: the callback log starts empty, ev.late tells the history's timer ran out
handle_key(h, ev) ==
    [Dispatch([h EXCEPT !.notified = <<>>, !.seen = <<>>, !.ta.late = ev.late], ev)
        EXCEPT !.ta.late = FALSE]

----------------------------------------------------------------------------
(* Events, the handler as a record of the variables, and running key lists *)

NamedKeys == {"escape", "left", "right", "up", "down", "ctrl+r", "enter"}
KeyEvent(k) == [key |-> k, ch |-> NoChar, late |-> FALSE]
CharEvent(c) == [key |-> c, ch |-> c, late |-> FALSE]
Ev(k) == IF k \in NamedKeys THEN KeyEvent(k) ELSE CharEvent(k)

\* a TextArea holding text with the cursor at loc and an empty history
NewTextArea(text, loc) ==
    [text |-> text, start |-> loc, cursor |-> loc, x |-> loc[2],
     undo |-> <<>>, redo |-> <<>>, force |-> FALSE, prev_repl |-> FALSE, late |-> FALSE]

\* ViHandler.__init__ on a TextArea
NewHandler(t) ==
    [mode |-> INSERT, pending_operator |-> "", pending_count |-> <<>>,
     pending_motion |-> "", pending_g |-> FALSE, last_change |-> <<>>,
     yank_buffer |-> <<>>, ta |-> t, mode_changed_callback |-> NoCallback,
     notified |-> <<>>, seen |-> <<>>, ret |-> "none"]

\* the handler the variables describe
Cur ==
    [mode |-> mode, pending_operator |-> pending_operator,
     pending_count |-> pending_count, pending_motion |-> pending_motion,
     pending_g |-> pending_g, last_change |-> last_change,
     yank_buffer |-> yank_buffer, ta |-> text_area,
     mode_changed_callback |-> mode_changed_callback,
     notified |-> <<>>, seen |-> <<>>, ret |-> ret]

\* the handler after the keys ks, one handle_key call each
RECURSIVE Run(_, _)
Run(h, ks) == IF ks = <<>> THEN h ELSE Run(handle_key(h, Ev(Head(ks))), Tail(ks))

\* the characters of a word, as a text
Hello == <<"h", "e", "l", "l", "o", " ", "w", "o", "r", "l", "d">>

----------------------------------------------------------------------------
(* The state machine: the host delivers one key event per step *)

\* the characters the grammar names, a digit int() rejects, and an unbound one
GrammarChars ==
    {"0", "1", "2", SuperTwo, "i", "I", "a", "A", "o", "O", "v",
     "h", "l", "j", "k", "w", "b", "e", "$", "^", "g", "G",
     "f", "F", "t", "T", "d", "c", "y", "x", "X", "D", "C", "s", "S",
     "p", "P", "u", ".", "J", "r", "z"}
AllKeys == NamedKeys \cup GrammarChars

\* the keys whose handling can record an edit, so that the history's timer matters
EditingChars == {"x", "X", "D", "C", "s", "S", "o", "O", "p", "P", ".", "J", "d", "c", "z"}
Late(k) == [Ev(k) EXCEPT !.late = TRUE]
AllEvents == {Ev(k) : k \in AllKeys} \cup {Late(k) : k \in EditingChars}

Locations(text) ==
    {l \in (0..Len(text)) \X (0..Len(text)) :
        l[1] <= line_count(text) - 1 /\ Clamp(text, l) = l}

\* a handler freshly constructed on one of the texts, the cursor anywhere
InitOn(texts) ==
    /\ mode = INSERT
    /\ pending_operator = ""
    /\ pending_count = <<>>
    /\ pending_motion = ""
    /\ pending_g = FALSE
    /\ last_change = <<>>
    /\ yank_buffer = <<>>
    /\ \E text \in texts : \E loc \in Locations(text) :
           text_area = NewTextArea(text, loc)
    /\ mode_changed_callback = NoCallback
    /\ reported = [cb \in Callbacks |-> ""]
    /\ ret = "none"

\* the explored runs stay within the bounds
WithinBounds(h) ==
    /\ Len(h.pending_count) <= MaxCountLen
    /\ Len(h.ta.undo) + Len(h.ta.redo) <= MaxUndo

\* one handle_key call; the callback log feeds the host's mode indicator
Press(ev) ==
    \E r \in {handle_key(Cur, ev)} :
       /\ WithinBounds(r)
       /\ mode' = r.mode
       /\ pending_operator' = r.pending_operator
       /\ pending_count' = r.pending_count
       /\ pending_motion' = r.pending_motion
       /\ pending_g' = r.pending_g
       /\ last_change' = r.last_change
       /\ yank_buffer' = r.yank_buffer
       /\ text_area' = r.ta
       /\ mode_changed_callback' = r.mode_changed_callback
       /\ reported' = IF r.notified # <<>>
                      THEN [reported EXCEPT ![r.mode_changed_callback] =
                                                r.notified[Len(r.notified)]]
                      ELSE reported
       /\ ret' = r.ret

\* ViHandler.set_mode_changed_callback: the host registers a callable
set_mode_changed_callback(callback) ==
    /\ mode_changed_callback' = callback
    /\ UNCHANGED <<mode, pending_operator, pending_count, pending_motion, pending_g,
                   last_change, yank_buffer, text_area, reported, ret>>

Idle == pending_operator = "" /\ pending_count = <<>> /\ pending_motion = "" /\ ~pending_g
NormalIdle == mode = NORMAL /\ Idle

----------------------------------------------------------------------------
(* Spec: composing and cancelling commands.  The explored keys build counts *)
(* (also with a digit int() rejects), operators, awaited characters, the g  *)
(* prefix and Visual selections; none of them edits the buffer.             *)

InitTexts == {<<"a", NL, " ", "b">>}
Init == InitOn(InitTexts)

InsertKeys == {"escape", "z"}
VisualKeys == {"escape", "h", "l", "y", "z"}
AwaitedKeys == IF pending_motion = "r" THEN {"escape"} ELSE {"escape", "b", "z"}
NormalKeys ==
    {"escape", "1", "0", SuperTwo, "i", "v", "g", "f", "r", "d", "c", "y", "h", "l", "z"}
        \ ({pending_operator} \cap {"d", "c"})

KeyInInsert == mode = INSERT /\ \E k \in InsertKeys : Press(Ev(k))
KeyInVisual == mode = VISUAL /\ \E k \in VisualKeys : Press(Ev(k))
KeyAwaited == mode = NORMAL /\ pending_motion # "" /\ \E k \in AwaitedKeys : Press(Ev(k))
KeyInNormal == mode = NORMAL /\ pending_motion = "" /\ \E k \in NormalKeys : Press(Ev(k))

Next == KeyInInsert \/ KeyInVisual \/ KeyAwaited \/ KeyInNormal

Spec == Init /\ [][Next]_vars

----------------------------------------------------------------------------
(* SpecEdit: editing.  The explored keys delete characters, lines and       *)
(* selections, change them, and repeat the last change, with little         *)
(* composition; each run records at most MaxUndo undo batches.              *)

EditTexts == {<<"a", NL, " ", "b">>}
InitEdit == InitOn(EditTexts)

EditVisualKeys == {"escape", "l", "d", "c"}
EditPendingKeys == {"escape", "1", pending_operator}
EditNormalKeys == {"escape", "1", "g", "f", "v", "d", "c", "l", "j", "x", "s", "."}

EditInInsert == mode = INSERT /\ Press(Ev("escape"))
EditInVisual == mode = VISUAL /\ \E k \in EditVisualKeys : Press(Ev(k))
EditCancel ==
    mode = NORMAL /\ (pending_motion # "" \/ pending_g) /\ Press(Ev("escape"))
EditPending ==
    /\ mode = NORMAL /\ pending_motion = "" /\ ~pending_g /\ pending_operator # ""
    /\ \E k \in EditPendingKeys : Press(Ev(k))
EditInNormal ==
    /\ mode = NORMAL /\ pending_motion = "" /\ ~pending_g /\ pending_operator = ""
    /\ \E k \in EditNormalKeys : Press(Ev(k))
EditLate == NormalIdle /\ Press(Late("x"))

NextEdit ==
    EditInInsert \/ EditInVisual \/ EditCancel \/ EditPending \/ EditInNormal \/ EditLate

SpecEdit == InitEdit /\ [][NextEdit]_vars

----------------------------------------------------------------------------
(* SpecHost: the host and its mode indicator.  The host registers and       *)
(* replaces the mode-changed callback at any time, between keys that change *)
(* the mode or build a count or an operator.                                *)

NextHost ==
    \/ \E callback \in Callbacks : set_mode_changed_callback(callback)
    \/ \E k \in {"escape", "i", "v", "1", "d"} : Press(Ev(k))

SpecHost == Init /\ [][NextHost]_vars

----------------------------------------------------------------------------
(* SpecMove: moving.  The explored keys move the cursor over longer texts,  *)
(* with and without a count.                                                *)

MoveTexts == {Hello, <<"a", "b", " ", "c", NL, " ", "d", NL>>}
InitMove == InitOn(MoveTexts)

MoveKeys == {"escape", "1", "0", "h", "l", "j", "k", "w", "b", "e", "$", "G"}

MoveInInsert == mode = INSERT /\ Press(Ev("escape"))
MoveInNormal == mode = NORMAL /\ \E k \in MoveKeys : Press(Ev(k))

NextMove == MoveInInsert \/ MoveInNormal

SpecMove == InitMove /\ [][NextMove]_vars

----------------------------------------------------------------------------
(* Properties *)

\* PendingComposition at its cleared default
Cleared(h) ==
    /\ h.pending_operator = ""
    /\ h.pending_count = <<>>
    /\ h.pending_motion = ""
    /\ h.pending_g = FALSE

Escape == KeyEvent("escape")
\* a handler brought to Normal mode by Escape on text, loc the Insert-mode cursor
NormalOn(text, loc) == handle_key(NewHandler(NewTextArea(text, loc)), Escape)

\* C1: handle_key returns false exactly when the mode at entry is Insert and
\* the key is not Escape; every other call returns true.
C1_ReturnValue ==
    \A ev \in AllEvents :
        handle_key(Cur, ev).ret = IF mode = INSERT /\ ev.key # "escape" THEN "false" ELSE "true"

\* the key continues a composition: a count digit, a first d/c/y, a bare g, or
\* one of f F t T r, not consumed as an awaited character or second g
Continues(ev) ==
    /\ mode = NORMAL /\ ~pending_g /\ pending_motion = ""
    /\ \/ IsDigit(ev.ch) /\ (pending_count # <<>> \/ ev.ch # "0")
       \/ ev.ch \in {"d", "c", "y"} /\ pending_operator # ev.ch
       \/ ev.ch \in {"g", "f", "F", "t", "T", "r"}

\* C2: after any handle_key call the four pending fields are cleared, unless
\* the key was a composition-continuing key in Normal mode.
C2_PendingCleared ==
    \A ev \in AllEvents : Continues(ev) \/ Cleared(handle_key(Cur, ev))

\* the handler with an ordinary callable registered
Listening == [Cur EXCEPT !.mode_changed_callback = "cb"]

\* C3: the registered mode-changed callback, a callable that passes the
\* handler's truth test, receives the new mode exactly once in a call that
\* changes the mode and is not invoked in a call that leaves it unchanged;
\* with nothing registered, or a callable whose truth value is False, no call
\* is made.
C3_CallbackOncePerModeChange ==
    \A ev \in AllEvents :
        LET r == handle_key(Cur, ev)
        IN r.notified = IF Truthy(mode_changed_callback) /\ r.mode # mode
                        THEN <<r.mode>>
                        ELSE <<>>

\* "cb" is registered after "other" and was told last of Normal mode; with a
\* count pending i changes the mode and notifies once, Escape does neither
C3_Witness ==
    /\ mode_changed_callback = "cb"
    /\ reported["cb"] = NORMAL
    /\ reported["other"] # ""
    /\ mode = NORMAL
    /\ pending_count # <<>>
    /\ handle_key(Cur, Ev("i")).notified = <<INSERT>>
    /\ handle_key(Cur, Ev("v")).notified = <<VISUAL>>
    /\ handle_key(Cur, Escape).notified = <<>>
    /\ handle_key(Cur, Ev("1")).notified = <<>>

\* C4: Escape (no character) leaves mode Normal and the pending fields
\* cleared, and changes neither the text, the register nor the last change; in
\* Normal mode it also leaves the cursor where it is and fires no callback.
C4_EscapeCancels ==
    LET r == handle_key(Cur, Escape)
    IN /\ r.mode = NORMAL
       /\ Cleared(r)
       /\ r.ta.text = text_area.text
       /\ r.yank_buffer = yank_buffer
       /\ r.last_change = last_change
       /\ r.ret = "true"
       /\ mode = NORMAL
             => r.ta.cursor = text_area.cursor /\ handle_key(Listening, Escape).notified = <<>>

\* an operator with a count is pending over a register and a recorded change
C4_Witness ==
    /\ mode = NORMAL
    /\ pending_operator = "d"
    /\ pending_count # <<>>
    /\ yank_buffer # <<>>
    /\ last_change # <<>>
    /\ Cleared(handle_key(Cur, Escape))

\* where the motion key k takes the cursor of t
MotionTarget(k, t) ==
    CASE k = "w" -> action_cursor_word_right(t).cursor
      [] k = "b" -> action_cursor_word_left(t).cursor
      [] k = "$" -> action_cursor_line_end(t).cursor
      [] k = "0" -> action_cursor_line_start(t).cursor

\* C5: with d pending, a motion key of w b $ 0 removes exactly the text between
\* the cursor and the motion's target, stores it in the register, records the
\* change and clears the pending state; "hello world" at (0,0) with d,w becomes
\* "world" with register "hello ".
C5_DeleteWithMotion ==
    /\ (mode = NORMAL /\ pending_operator = "d" /\ pending_count = <<>>
            /\ pending_motion = "" /\ ~pending_g)
       => \A k \in OperatorMotions :
              LET r == handle_key(Cur, Ev(k))
                  target == MotionTarget(k, text_area)
              IN /\ r.ta.text = replace_range(text_area.text, text_area.cursor,
                                              target, <<>>).text
                 /\ r.yank_buffer = get_text_range(text_area.text, text_area.cursor, target)
                 /\ r.last_change = <<"d", MotionOf(k)>>
                 /\ Cleared(r)
    /\ LET r == Run(NormalOn(Hello, <<0, 0>>), <<"d", "w">>)
       IN /\ r.ta.text = <<"w", "o", "r", "l", "d">>
          /\ r.ta.cursor = <<0, 0>>
          /\ r.yank_buffer = <<"h", "e", "l", "l", "o", " ">>

\* C6: Visual-mode y copies the selection to the register, leaves the text
\* alone, switches to Normal and puts the collapsed cursor at the smaller of
\* anchor and cursor; "abcdef" at (0,0) with v,l,l,y yanks "abc".
C6_VisualYank ==
    /\ mode = VISUAL
       => LET r == handle_key(Cur, Ev("y"))
          IN /\ r.yank_buffer = get_text_range(text_area.text, text_area.start,
                                               text_area.cursor)
             /\ r.ta.text = text_area.text
             /\ r.mode = NORMAL
             /\ r.ta.start = r.ta.cursor
             /\ r.ta.cursor = LocMin(text_area.start, text_area.cursor)
    /\ LET r == Run(NormalOn(<<"a", "b", "c", "d", "e", "f">>, <<0, 0>>),
                    <<"v", "l", "l", "y">>)
       IN /\ r.ta.text = <<"a", "b", "c", "d", "e", "f">>
          /\ r.yank_buffer = <<"a", "b", "c">>
          /\ r.ta.cursor = <<0, 0>>
          /\ r.mode = NORMAL

\* the largest count the count claims try
MaxRepeat == 11
CountedCommands == {"h", "l", "j", "k", "w", "b", "e", "x", "X"}
DigitChar(d) == CHOOSE c \in DecimalDigits : DigitVal(c) = d
RECURSIVE Digits(_)
Digits(n) == IF n < 10 THEN <<DigitChar(n)>> ELSE Append(Digits(n \div 10), DigitChar(n % 10))

\* C7: in Normal mode with nothing pending, the digits of n followed by one of
\* h l j k w b e x X give the text and cursor that the key pressed n times
\* gives; 3x on "world" at column 0 gives "ld".
C7_CountIsRepetition ==
    /\ NormalIdle
       => \A n \in 1..MaxRepeat : \A m \in CountedCommands :
              LET counted == Run(Cur, Append(Digits(n), m))
                  repeated == Run(Cur, [i \in 1..n |-> m])
              IN /\ counted.ta.text = repeated.ta.text
                 /\ counted.ta.cursor = repeated.ta.cursor
                 /\ counted.ret = "true"
    /\ Run(NormalOn(<<"w", "o", "r", "l", "d">>, <<0, 0>>), <<"3", "x">>).ta.text
           = <<"l", "d">>

\* a count of 10 moves ten columns, a single press one
C7_Witness ==
    /\ NormalIdle
    /\ text_area.text = Hello
    /\ text_area.cursor = <<0, 0>>
    /\ Run(Cur, <<"1", "0", "l">>).ta.cursor = <<0, 10>>
    /\ Run(Cur, <<"l">>).ta.cursor = <<0, 1>>

\* C8: in Normal mode with no character or second g awaited, 0 is appended to
\* a non-empty count without moving the cursor; with an empty count it moves
\* the cursor to the start of the line, starts no count and clears the pending
\* state; the digits 1-9 are always appended.
C8_ZeroResolution ==
    (mode = NORMAL /\ pending_motion = "" /\ ~pending_g)
    => /\ LET r == handle_key(Cur, Ev("0"))
          IN IF pending_count # <<>>
             THEN /\ r.pending_count = Append(pending_count, "0")
                  /\ r.pending_operator = pending_operator
                  /\ r.ta = text_area
             ELSE /\ r.ta.cursor = <<text_area.cursor[1], 0>>
                  /\ Cleared(r)
       /\ \A d \in DecimalDigits \ {"0"} :
              LET r == handle_key(Cur, Ev(d))
              IN /\ r.pending_count = Append(pending_count, d)
                 /\ r.ta = text_area

\* on the indented line " b" with the cursor behind the blank: 0 goes to
\* column 0, and after 1 it is a count digit that moves nothing
C8_Witness ==
    /\ mode = NORMAL
    /\ Idle
    /\ text_area.cursor = <<1, 1>>
    /\ handle_key(Cur, Ev("0")).ta.cursor = <<1, 0>>
    /\ handle_key(Cur, Ev("0")).pending_count = <<>>
    /\ Run(Cur, <<"1", "0">>).pending_count = <<"1", "0">>
    /\ Run(Cur, <<"1", "0">>).ta.cursor = <<1, 1>>

\* C9: d,d followed by u in Normal mode restores the text to what it was before.
C9_DeleteLineUndo ==
    NormalIdle => Run(Cur, <<"d", "d", "u">>).ta.text = text_area.text

\* the lines of a text
Lines(text) == [r \in 0..(line_count(text) - 1) |-> get_line(text, r)]

\* C10: after yy, moving to another line and pressing p inserts the yanked
\* line as a whole new line below the cursor's line: one more line, the new
\* line at row+1, every other line unchanged.
C10_PasteLineBelow ==
    NormalIdle
    => \A move \in {"j", "k"} :
           LET yanked == Run(Cur, <<"y", "y", move>>)
               row == yanked.ta.cursor[1]
               pasted == Lines(handle_key(yanked, Ev("p")).ta.text)
               before == Lines(text_area.text)
           IN row # text_area.cursor[1]
              => /\ DOMAIN pasted = 0..line_count(text_area.text)
                 /\ \A r \in DOMAIN pasted :
                        pasted[r] = IF r <= row THEN before[r]
                                    ELSE IF r = row + 1 THEN before[text_area.cursor[1]]
                                    ELSE before[r - 1]

\* Normal mode with nothing awaited, no operator pending and a count int() reads
CommandReady ==
    /\ mode = NORMAL
    /\ pending_operator = ""
    /\ pending_motion = ""
    /\ ~pending_g
    /\ ~CountRaises(Cur)

\* text without the character at offset off (there must be one)
WithoutChar(text, off) == SubSeq(text, 1, off) \o SubSeq(text, off + 2, Len(text))

\* C11: a . pressed right after x in Normal mode deletes exactly one more
\* character, the one at the cursor's position when . is pressed, and nothing else.
C11_RepeatDeletesOneMore ==
    CommandReady
    => LET after_x == handle_key(Cur, Ev("x"))
           r == handle_key(after_x, Ev("."))
       IN /\ Len(r.ta.text) = Len(after_x.ta.text) - 1
          /\ r.ta.text = WithoutChar(after_x.ta.text,
                                     OffsetOf(after_x.ta.text, after_x.ta.cursor))

\* the values the handler assigns to last_change
RecordedChanges ==
    {<<"x">>, <<"X">>, <<"D">>, <<"C">>, <<"s">>, <<"S">>, <<"dd">>, <<"cc">>}
    \cup {<<op, MotionOf(k)>> : op \in {"d", "c"}, k \in OperatorMotions}

\* C12: a . key never changes last_change, whatever change is recorded, so
\* consecutive . keys all repeat the same command.
C12_ReplayKeepsLastChange ==
    /\ handle_key(Cur, Ev(".")).last_change = last_change
    /\ Run(Cur, <<".", "escape", ".">>).last_change = last_change
    /\ \A change \in RecordedChanges :
           handle_key([Cur EXCEPT !.last_change = change], Ev(".")).last_change = change

\* a recorded line deletion is replayed on a buffer that still has a line to delete
C12_Witness ==
    /\ NormalIdle
    /\ last_change = <<"dd">>
    /\ text_area.text # <<>>
    /\ handle_key(Cur, Ev(".")).ta.text # text_area.text
    /\ handle_key(Cur, Ev(".")).last_change = <<"dd">>

\* C13: Escape in Insert mode switches to Normal, clears the pending state and
\* moves the cursor one column left when its column is > 0, leaving row and
\* text alone; a moves one column right (clamped to the line length) and
\* enters Insert, so a, Escape on "ab" from column 1 ends at column 1.
C13_InsertEscape ==
    /\ mode = INSERT
       => LET r == handle_key(Cur, Escape)
          IN /\ r.mode = NORMAL
             /\ Cleared(r)
             /\ r.ta.text = text_area.text
             /\ r.ta.cursor = <<text_area.cursor[1],
                                IF text_area.cursor[2] > 0 THEN text_area.cursor[2] - 1
                                ELSE 0>>
    /\ NormalIdle
       => LET r == handle_key(Cur, Ev("a"))
          IN /\ r.mode = INSERT
             /\ r.ta.text = text_area.text
             /\ r.ta.cursor = <<text_area.cursor[1],
                                Min2(text_area.cursor[2] + 1,
                                     LineLen(text_area.text, text_area.cursor[1]))>>
    /\ LET start == NormalOn(<<"a", "b">>, <<0, 2>>)
       IN /\ start.ta.cursor = <<0, 1>>
          /\ Run(start, <<"a">>).ta.cursor = <<0, 2>>
          /\ Run(start, <<"a", "escape">>).ta.cursor = <<0, 1>>

\* Insert mode was entered by a change and the cursor is not at column 0
C13_Witness ==
    /\ mode = INSERT
    /\ last_change # <<>>
    /\ text_area.cursor[2] > 0
    /\ handle_key(Cur, Escape).ta.cursor = <<text_area.cursor[1], text_area.cursor[2] - 1>>

\* C14: handle_key completes and returns a boolean for every key event in
\* every reachable state; it never raises.
C14_NeverRaises ==
    \A ev \in AllEvents : handle_key(Cur, ev).ret \in {"true", "false"}

\* paste, undo/redo and replay, which the last change does not follow
Untracked(ev) == ev.ch \in {"p", "P", "u", "."} \/ ev.key = "ctrl+r"

\* the record that identifies the command ev completes
RecordOf(ev) ==
    IF mode = NORMAL /\ pending_motion = "r" THEN <<"r">>
    ELSE IF mode = NORMAL /\ ev.ch \in {"d", "c"} THEN <<IF ev.ch = "d" THEN "dd" ELSE "cc">>
    ELSE <<ev.ch>>

\* C15: every Normal- or Visual-mode command that changes the text, other
\* than paste, undo/redo and replay, sets last_change to a record of that command.
C15_LastChangeFollowsMutation ==
    mode \in {NORMAL, VISUAL}
    => \A ev \in AllEvents :
           LET r == handle_key(Cur, ev)
           IN (r.ret = "true" /\ r.ta.text # text_area.text /\ ~Untracked(ev))
              => r.last_change = RecordOf(ev)

\* the part of the cursor's line a search for the awaited motion looks at
SearchedPart(t, motion) ==
    IF motion \in {"f", "t"}
    THEN SubSeq(get_line(t.text, t.cursor[1]), t.cursor[2] + 2,
                LineLen(t.text, t.cursor[1]))
    ELSE SubSeq(get_line(t.text, t.cursor[1]), 1, t.cursor[2])
Occurs(ch, part) == \E i \in 1..Len(part) : part[i] = ch

\* the call changed nothing but the pending fields, which it cleared, and returned true
NoOp(r) ==
    /\ r.ta.text = text_area.text
    /\ r.ta.cursor = text_area.cursor
    /\ r.mode = mode
    /\ r.yank_buffer = yank_buffer
    /\ r.last_change = last_change
    /\ r.ret = "true"
    /\ Cleared(r)

\* C16: a character search whose target does not occur in the searched part
\* of the line, a paste with an empty register and a . with no last change
\* change neither text, cursor, mode, register nor last change, return true
\* and leave the pending fields cleared.
C16_NoTargetIsNoOp ==
    /\ (mode = NORMAL /\ pending_motion \in {"f", "F", "t", "T"})
       => \A motion \in {"f", "F", "t", "T"} : \A c \in GrammarChars :
              Occurs(c, SearchedPart(text_area, motion))
              \/ NoOp(handle_key([Cur EXCEPT !.pending_motion = motion], Ev(c)))
    /\ (CommandReady /\ yank_buffer = <<>>)
       => NoOp(handle_key(Cur, Ev("p"))) /\ NoOp(handle_key(Cur, Ev("P")))
    /\ (CommandReady /\ last_change = <<>>) => NoOp(handle_key(Cur, Ev(".")))

\* a search is awaited where the line holds the character behind the cursor only
C16_Witness ==
    /\ mode = NORMAL
    /\ pending_motion = "f"
    /\ pending_count # <<>>
    /\ yank_buffer # <<>>
    /\ text_area.cursor = <<1, 2>>
    /\ Occurs("b", get_line(text_area.text, 1))
    /\ NoOp(handle_key(Cur, Ev("b")))

\* the columns of line where ch stands
ColumnsOf(line, ch) == {i \in 0..(Len(line) - 1) : line[i + 1] = ch}

\* where a search for ch leaves the cursor of t: the next occurrence right of
\* the cursor (f), the column before it (t), the last occurrence left of the
\* cursor (F), the column after it (T); the cursor's own column on a miss
SearchColumn(motion, col, hits) ==
    IF motion \in {"f", "t"}
    THEN IF \E i \in hits : i > col
         THEN SetMin({i \in hits : i > col}) - (IF motion = "t" THEN 1 ELSE 0)
         ELSE col
    ELSE IF \E i \in hits : i < col
         THEN SetMax({i \in hits : i < col}) + (IF motion = "T" THEN 1 ELSE 0)
         ELSE col

\* text with the character at offset off replaced by ch (appended at the end)
WithCharAt(text, off, ch) == SubSeq(text, 1, off) \o <<ch>> \o SubSeq(text, off + 2, Len(text))

\* C17: while a character is awaited (after f F t T r) the next key with a
\* character is only the search or replace target, also when it is a digit, an
\* operator key, a mode-switch key, g, . or u: the count is not extended, no
\* operator is set, the mode stays and the pending state is cleared.
C17_AwaitedCharFirst ==
    (mode = NORMAL /\ pending_motion # "")
    => \A c \in GrammarChars :
           LET r == handle_key(Cur, Ev(c))
           IN /\ r.ret = "true"
              /\ r.mode = NORMAL
              /\ Cleared(r)
              /\ r.yank_buffer = yank_buffer
              /\ r.last_change = last_change
              /\ IF pending_motion = "r"
                 THEN r.ta.text = WithCharAt(text_area.text,
                                             OffsetOf(text_area.text, text_area.cursor), c)
                 ELSE /\ r.ta.text = text_area.text
                      /\ r.ta.cursor =
                            <<text_area.cursor[1],
                              SearchColumn(pending_motion, text_area.cursor[2],
                                  ColumnsOf(get_line(text_area.text, text_area.cursor[1]), c))>>

\* a search is awaited with a count and an operator pending, and a digit arrives
C17_Witness ==
    /\ mode = NORMAL
    /\ pending_motion = "f"
    /\ pending_count = <<"1">>
    /\ pending_operator = "d"
    /\ Cleared(handle_key(Cur, Ev("1")))
    /\ text_area.cursor = <<1, 0>>
    /\ handle_key(Cur, Ev("b")).ta.cursor = <<1, 1>>

\* C18: a bare g in Normal mode awaits a second key, which is always consumed:
\* g moves the cursor to (0,0), any other key changes neither text, cursor,
\* mode, register nor last change; either way all pending fields are cleared.
C18_SecondGConsumed ==
    /\ (mode = NORMAL /\ pending_motion = "" /\ ~pending_g)
       => LET r == handle_key(Cur, Ev("g"))
          IN r.pending_g /\ r.ret = "true" /\ r.ta = text_area
    /\ (mode = NORMAL /\ pending_g)
       => \A ev \in AllEvents :
              LET r == handle_key(Cur, ev)
              IN IF ev.ch = "g"
                 THEN /\ r.ta.cursor = <<0, 0>>
                      /\ r.ta.text = text_area.text
                      /\ r.mode = NORMAL
                      /\ r.yank_buffer = yank_buffer
                      /\ r.last_change = last_change
                      /\ r.ret = "true"
                      /\ Cleared(r)
                 ELSE NoOp(r)

\* g is awaited after a count and an operator, away from the document start
C18_Witness ==
    /\ mode = NORMAL
    /\ pending_g
    /\ pending_count # <<>>
    /\ pending_operator = "d"
    /\ text_area.cursor = <<1, 1>>
    /\ handle_key(Cur, Ev("g")).ta.cursor = <<0, 0>>
    /\ Cleared(handle_key(Cur, Ev("i")))

\* C19: with an operator pending in Normal mode, a key that is neither a count
\* digit, an operator key nor one of w b $ 0 cancels: the pending state is
\* cleared, the text is not changed and the mode stays Normal.
C19_OperatorCancelled ==
    (mode = NORMAL /\ pending_operator # "" /\ pending_motion = "" /\ ~pending_g)
    => \A ev \in AllEvents :
           \/ IsDigit(ev.ch)
           \/ ev.ch \in {"d", "c", "y"} \cup OperatorMotions
           \/ LET r == handle_key(Cur, ev)
              IN /\ Cleared(r)
                 /\ r.ta.text = text_area.text
                 /\ r.mode = NORMAL

\* C20: v anchors the selection at the cursor; in Visual mode a navigation key
\* keeps the anchor, the text and the mode, the selection being (anchor, new
\* cursor); a key that is neither navigation, operator nor Escape changes
\* neither selection, cursor nor text.
C20_VisualAnchorFixed ==
    /\ CommandReady
       => LET r == handle_key(Cur, Ev("v"))
          IN /\ r.mode = VISUAL
             /\ r.ta.start = text_area.cursor
             /\ r.ta.cursor = text_area.cursor
    /\ mode = VISUAL
       => \A ev \in AllEvents :
              LET r == handle_key(Cur, ev)
              IN IF IsVisualMotion(ev)
                 THEN /\ r.ta.start = text_area.start
                      /\ r.ta.text = text_area.text
                      /\ r.mode = VISUAL
                      /\ r.ret = "true"
                 ELSE (ev.ch \notin {"d", "x", "c", "y"} /\ ev.key # "escape")
                      => /\ r.ta.start = text_area.start
                         /\ r.ta.cursor = text_area.cursor
                         /\ r.ta.text = text_area.text
                         /\ r.mode = VISUAL
                         /\ r.ret = "true"

\* a selection that has been extended is extended again, the anchor staying
C20_Witness ==
    /\ mode = VISUAL
    /\ text_area.start = <<0, 1>>
    /\ text_area.cursor = <<0, 0>>
    /\ handle_key(Cur, Ev("j")).ta.cursor # text_area.cursor
    /\ handle_key(Cur, Ev("j")).ta.start = <<0, 1>>

\* C21: Escape in Visual mode leaves Normal mode, an empty selection and the
\* text as it was, the cursor at the start of the selection that existed (its
\* anchor, not its moving end).
C21_VisualEscape ==
    mode = VISUAL
    => LET r == handle_key(Cur, Escape)
       IN /\ r.mode = NORMAL
          /\ r.ta.start = r.ta.cursor
          /\ r.ta.text = text_area.text
          /\ r.ta.cursor = text_area.start

\* C22: Visual-mode d, x and c remove exactly the selected text, whichever way
\* the selection was extended, store that text in the register and leave the
\* cursor at the smaller of anchor and cursor; d and x end in Normal mode, c in
\* Insert mode; the pending state is cleared.
C22_VisualOperators ==
    mode = VISUAL
    => \A c \in {"d", "x", "c"} :
           LET r == handle_key(Cur, Ev(c))
               first == LocMin(text_area.start, text_area.cursor)
               last == LocMax(text_area.start, text_area.cursor)
           IN /\ r.ta.text = SubSeq(text_area.text, 1, OffsetOf(text_area.text, first))
                                \o SubSeq(text_area.text, OffsetOf(text_area.text, last) + 1,
                                          Len(text_area.text))
              /\ r.yank_buffer = SubSeq(text_area.text, OffsetOf(text_area.text, first) + 1,
                                        OffsetOf(text_area.text, last))
              /\ r.ta.cursor = first
              /\ r.ta.start = first
              /\ r.mode = IF c = "c" THEN INSERT ELSE NORMAL
              /\ Cleared(r)
              /\ r.ret = "true"

\* a selection extended backwards over a line break is deleted
C22_Witness ==
    /\ mode = VISUAL
    /\ text_area.start = <<1, 0>>
    /\ text_area.cursor = <<0, 1>>
    /\ handle_key(Cur, Ev("d")).yank_buffer = <<NL>>
    /\ handle_key(Cur, Ev("d")).ta.text = <<"a", " ", "b">>
    /\ handle_key(Cur, Ev("d")).ta.cursor = <<0, 1>>

\* the text of the cursor's row, with its line break unless the row is the last
LineWithBreak(t) ==
    SubSeq(t.text, LineStart(t.text, t.cursor[1]) + 1,
           Min2(LineEnd(t.text, t.cursor[1]) + 1, Len(t.text)))

\* the text without the cursor's row and its line break (if it has one)
WithoutLine(t) ==
    SubSeq(t.text, 1, LineStart(t.text, t.cursor[1]))
    \o SubSeq(t.text, Min2(LineEnd(t.text, t.cursor[1]) + 1, Len(t.text)) + 1, Len(t.text))

\* C23: dd deletes the cursor's line from its start to its end, with the line
\* break unless the line is the last: the register is the line (with that
\* break), the other lines stay, the line count drops by one on a row that is
\* not the last; dd records a line delete; cc deletes the same, ends in Insert
\* mode and records a line change.
C23_LineDelete ==
    CommandReady
    => \A op \in {"d", "c"} :
           LET r == Run(Cur, <<op, op>>)
           IN /\ r.ta.text = WithoutLine(text_area)
              /\ r.yank_buffer = LineWithBreak(text_area)
              /\ line_count(r.ta.text) =
                     IF text_area.cursor[1] < line_count(text_area.text) - 1
                     THEN line_count(text_area.text) - 1
                     ELSE line_count(text_area.text)
              /\ r.last_change = <<IF op = "d" THEN "dd" ELSE "cc">>
              /\ r.mode = IF op = "d" THEN NORMAL ELSE INSERT

\* dd on the last line " b" from column 1 leaves "a" and its line break and
\* yanks " b"; on the first line it takes "a" with its break
C23_Witness ==
    /\ CommandReady
    /\ text_area.cursor = <<1, 1>>
    /\ Run(Cur, <<"d", "d">>).ta.text = <<"a", NL>>
    /\ Run(Cur, <<"d", "d">>).yank_buffer = <<" ", "b">>
    /\ Run(Cur, <<"d", "d">>).last_change = <<"dd">>
    /\ Run(Cur, <<"c", "c">>).mode = INSERT
    /\ Run(Cur, <<"k", "d", "d">>).ta.text = <<" ", "b">>
    /\ Run(Cur, <<"k", "d", "d">>).yank_buffer = <<"a", NL>>

\* C24: yy changes neither text, mode nor last change, sets the register to
\* the cursor's line (with its line break unless the line is the last), leaves
\* the selection empty and puts the cursor at column 0 of the same row.
C24_LineYank ==
    CommandReady
    => LET r == Run(Cur, <<"y", "y">>)
       IN /\ r.ta.text = text_area.text
          /\ r.mode = NORMAL
          /\ r.last_change = last_change
          /\ r.yank_buffer = LineWithBreak(text_area)
          /\ r.ta.start = r.ta.cursor
          /\ r.ta.cursor = <<text_area.cursor[1], 0>>

\* yy on the indented last line from column 1, and on the first line
C24_Witness ==
    /\ CommandReady
    /\ text_area.cursor = <<1, 1>>
    /\ Run(Cur, <<"y", "y">>).yank_buffer = <<" ", "b">>
    /\ Run(Cur, <<"y", "y">>).ta.cursor = <<1, 0>>
    /\ Run(Cur, <<"y", "y">>).ta.text = text_area.text
    /\ Run(Cur, <<"k", "y", "y">>).yank_buffer = <<"a", NL>>

\* navigation, yank, paste, undo/redo, mode-switch keys and Escape
NonRecordingKeys ==
    {"h", "l", "j", "k", "w", "b", "e", "0", "$", "^", "G", "g", "f", "F", "t", "T",
     "y", "p", "P", "u", "i", "I", "a", "A", "v",
     "left", "right", "up", "down", "ctrl+r", "escape"}

\* C25: navigation keys, searches, yanks, paste, undo/redo, the mode-switch
\* keys i I a A v, Escape and cancelled compositions leave last_change as it was.
C25_LastChangeKept ==
    /\ \A k \in NonRecordingKeys : handle_key(Cur, Ev(k)).last_change = last_change
    /\ (mode = NORMAL /\ (pending_g \/ pending_motion \in {"f", "F", "t", "T"}))
       => \A ev \in AllEvents : handle_key(Cur, ev).last_change = last_change
    /\ (mode = NORMAL /\ pending_operator # "")
       => handle_key(Cur, Ev("z")).last_change = last_change
    /\ CommandReady
       => /\ Run(Cur, <<"y", "y">>).last_change = last_change
          /\ Run(Cur, <<"g", "g">>).last_change = last_change
          /\ Run(Cur, <<"v", "l", "y">>).last_change = last_change

\* a line was deleted; pasting it back changes the text and not the record
C25_Witness ==
    /\ NormalIdle
    /\ last_change = <<"dd">>
    /\ yank_buffer # <<>>
    /\ handle_key(Cur, Ev("p")).ta.text # text_area.text
    /\ handle_key(Cur, Ev("p")).last_change = <<"dd">>
    /\ Run(Cur, <<"y", "y">>).last_change = <<"dd">>

\* removing the text cut somewhere from before leaves after
RemovedIs(before, after, cut) ==
    /\ Len(cut) = Len(before) - Len(after)
    /\ \E i \in 0..Len(after) :
           before = SubSeq(after, 1, i) \o cut \o SubSeq(after, i + 1, Len(after))

\* C26: every command that copies or removes text sets the register to
\* exactly that text: the standalone deletes x X D C s S, dd and cc, the
\* Visual d x c and the Visual y.
C26_RegisterFollowsDeletes ==
    /\ CommandReady
       => /\ \A c \in StandaloneChars :
                 LET r == handle_key(Cur, Ev(c))
                 IN r.ta.text # text_area.text
                    => RemovedIs(text_area.text, r.ta.text, r.yank_buffer)
          /\ \A op \in {"d", "c"} :
                 LET r == Run(Cur, <<op, op>>)
                 IN r.ta.text # text_area.text
                    => RemovedIs(text_area.text, r.ta.text, r.yank_buffer)
    /\ mode = VISUAL
       => /\ \A c \in {"d", "x", "c"} :
                 LET r == handle_key(Cur, Ev(c))
                 IN RemovedIs(text_area.text, r.ta.text, r.yank_buffer)
          /\ handle_key(Cur, Ev("y")).yank_buffer = selected_text(text_area)

\* text with ins inserted at offset off
WithInsert(text, off, ins) == SubSeq(text, 1, off) \o ins \o SubSeq(text, off + 1, Len(text))

\* C27: p and P leave the register as it was; with a non-empty register P
\* inserts the register at the cursor and p one column to its right (clamped
\* to the line length), so the text grows by the register's length, and by
\* twice that when pasted twice.
C27_PasteReadsRegister ==
    CommandReady
    => /\ handle_key(Cur, Ev("p")).yank_buffer = yank_buffer
       /\ handle_key(Cur, Ev("P")).yank_buffer = yank_buffer
       /\ yank_buffer # <<>>
          => /\ handle_key(Cur, Ev("P")).ta.text =
                    WithInsert(text_area.text, OffsetOf(text_area.text, text_area.cursor),
                               yank_buffer)
             /\ handle_key(Cur, Ev("p")).ta.text =
                    WithInsert(text_area.text,
                               LineStart(text_area.text, text_area.cursor[1])
                                   + Min2(text_area.cursor[2] + 1,
                                          LineLen(text_area.text, text_area.cursor[1])),
                               yank_buffer)
             /\ \A k \in {"p", "P"} :
                    LET twice == Run(Cur, <<k, k>>)
                    IN /\ Len(twice.ta.text) = Len(text_area.text) + 2 * Len(yank_buffer)
                       /\ twice.yank_buffer = yank_buffer

\* a yanked line is pasted into another line
C27_Witness ==
    /\ NormalIdle
    /\ yank_buffer = <<"a", NL>>
    /\ text_area.cursor = <<1, 0>>
    /\ handle_key(Cur, Ev("p")).ta.text = <<"a", NL, " ", "a", NL, "b">>
    /\ handle_key(Cur, Ev("P")).ta.text = <<"a", NL, "a", NL, " ", "b">>

\* the characters searched for: some that occur once, some several times,
\* some on another line only, one nowhere
SearchChars == {"l", "o", "h", "d", "a", "b", "c", " ", "z"}

\* C28: f moves to the smallest column right of the cursor holding the
\* target, t to the column before it, F to the largest column left of the
\* cursor holding it, T to the column after it; the row never changes, f and t
\* never decrease the column, F and T never increase it, other lines are not
\* searched, and the pending state is cleared with or without a match.
C28_CharSearch ==
    CommandReady
    => \A c \in SearchChars : \A motion \in {"f", "F", "t", "T"} :
           LET r == Run(Cur, <<motion, c>>)
               col == text_area.cursor[2]
               hits == ColumnsOf(get_line(text_area.text, text_area.cursor[1]), c)
               right == {i \in hits : i > col}
               left == {i \in hits : i < col}
           IN /\ r.ta.text = text_area.text
              /\ r.ta.cursor[1] = text_area.cursor[1]
              /\ Cleared(r)
              /\ r.ta.cursor[2] =
                    CASE motion = "f" -> IF right = {} THEN col ELSE SetMin(right)
                      [] motion = "t" -> IF right = {} THEN col ELSE SetMin(right) - 1
                      [] motion = "F" -> IF left = {} THEN col ELSE SetMax(left)
                      [] motion = "T" -> IF left = {} THEN col ELSE SetMax(left) + 1
              /\ motion \in {"f", "t"} => r.ta.cursor[2] >= col
              /\ motion \in {"F", "T"} => r.ta.cursor[2] <= col

\* between two of the three l of "hello world": f and F find the nearest
C28_Witness ==
    /\ NormalIdle
    /\ text_area.text = Hello
    /\ text_area.cursor = <<0, 3>>
    /\ Run(Cur, <<"f", "l">>).ta.cursor = <<0, 9>>
    /\ Run(Cur, <<"t", "l">>).ta.cursor = <<0, 8>>
    /\ Run(Cur, <<"F", "l">>).ta.cursor = <<0, 2>>
    /\ Run(Cur, <<"T", "o">>).ta.cursor = <<0, 3>>

\* the character at the cursor of t, NoChar at the end of the text
CharAt(t, off) == IF off < Len(t.text) THEN t.text[off + 1] ELSE NoChar

\* C29: e always advances and lands on the last character of a word: the
\* cursor's offset grows, the character under the cursor is not a blank and
\* is followed by a blank or the end of the text.
C29_WordEndAdvances ==
    NormalIdle
    => LET r == handle_key(Cur, Ev("e"))
           before == OffsetOf(text_area.text, text_area.cursor)
           after == OffsetOf(r.ta.text, r.ta.cursor)
       IN /\ after > before
          /\ CharAt(r.ta, after) # NoChar
          /\ ~IsSpace(CharAt(r.ta, after))
          /\ CharAt(r.ta, after + 1) = NoChar \/ IsSpace(CharAt(r.ta, after + 1))

\* the records of the commands that are one key or a doubled operator
KeyRecords == {<<"x">>, <<"X">>, <<"D">>, <<"C">>, <<"s">>, <<"S">>, <<"dd">>, <<"cc">>}

\* the keys of the commands that record a change, and of the operator motions
RecordingChars == {"x", "X", "D", "C", "s", "S", "d", "c", "w", "b", "$", "0"}

\* the keys that type the command a record names
KeysOf(change) ==
    CASE change = <<"dd">> -> <<"d", "d">>
      [] change = <<"cc">> -> <<"c", "c">>
      [] OTHER -> change

\* two handlers agree on text, cursor, register and mode
SameOutcome(r1, r2) ==
    /\ r1.ta.text = r2.ta.text
    /\ r1.ta.cursor = r2.ta.cursor
    /\ r1.yank_buffer = r2.yank_buffer
    /\ r1.mode = r2.mode

\* C30: every record that last_change can hold names a command (an operator
\* followed by w, b, $ or 0 records nothing), and a . in
\* Normal mode gives the text, cursor, register and mode that typing that
\* command once without a count gives from the same state, whatever count was
\* typed before the . key.
C30_ReplayIsRetyping ==
    /\ last_change \in KeyRecords \cup {<<>>}
    /\ \A k \in RecordingChars :
           handle_key(Cur, Ev(k)).last_change \in KeyRecords \cup {<<>>}
    /\ (mode = NORMAL /\ pending_operator = "" /\ pending_motion = "" /\ ~pending_g)
       => \A change \in KeyRecords :
              SameOutcome(handle_key([Cur EXCEPT !.last_change = change], Ev(".")),
                          Run([Cur EXCEPT !.pending_count = <<>>], KeysOf(change)))

\* an x typed elsewhere is replayed after a count, where a character is left
C30_Witness ==
    /\ mode = NORMAL
    /\ last_change = <<"x">>
    /\ pending_count = <<"1", "1">>
    /\ pending_operator = ""
    /\ handle_key(Cur, Ev(".")).ta.text # text_area.text
    /\ Len(handle_key(Cur, Ev(".")).ta.text) = Len(text_area.text) - 1

\* the lines with an empty line put in as row r
WithEmptyLine(lines, r) ==
    [i \in 0..(SetMax(DOMAIN lines) + 1) |->
        IF i < r THEN lines[i] ELSE IF i = r THEN <<>> ELSE lines[i - 1]]

\* C31: o adds one empty line below the cursor's row and O one above it; the
\* other lines keep their text and order, the cursor is at column 0 of the new
\* line, the mode is Insert and the pending state is cleared.
C31_OpenLine ==
    (mode = NORMAL /\ pending_motion = "" /\ ~pending_g)
    => /\ Lines(handle_key(Cur, Ev("o")).ta.text)
              = WithEmptyLine(Lines(text_area.text), text_area.cursor[1] + 1)
       /\ handle_key(Cur, Ev("o")).ta.cursor = <<text_area.cursor[1] + 1, 0>>
       /\ handle_key(Cur, Ev("o")).mode = INSERT
       /\ Cleared(handle_key(Cur, Ev("o")))
       /\ Lines(handle_key(Cur, Ev("O")).ta.text)
              = WithEmptyLine(Lines(text_area.text), text_area.cursor[1])
       /\ handle_key(Cur, Ev("O")).ta.cursor = <<text_area.cursor[1], 0>>
       /\ handle_key(Cur, Ev("O")).mode = INSERT
       /\ Cleared(handle_key(Cur, Ev("O")))

\* on the indented line " b" from column 1: O opens row 1 above it, o row 2
\* below it
C31_Witness ==
    /\ mode = NORMAL
    /\ pending_motion = ""
    /\ ~pending_g
    /\ pending_count # <<>>
    /\ text_area.cursor = <<1, 1>>
    /\ handle_key(Cur, Ev("O")).ta.text = <<"a", NL, NL, " ", "b">>
    /\ handle_key(Cur, Ev("O")).ta.cursor = <<1, 0>>
    /\ handle_key(Cur, Ev("o")).ta.text = <<"a", NL, " ", "b", NL>>
    /\ handle_key(Cur, Ev("o")).ta.cursor = <<2, 0>>
    /\ handle_key(Cur, Ev("o")).mode = INSERT

\* the lines with row r and the row below it joined by one space
Joined(lines, r) ==
    [i \in 0..(SetMax(DOMAIN lines) - 1) |->
        IF i < r THEN lines[i]
        ELSE IF i = r THEN lines[r] \o <<" ">> \o lines[r + 1]
        ELSE lines[i + 1]]

\* C32: J on a row that is not the last makes that row the old row, one space
\* and the old next row, with one line less and the other lines unchanged; on
\* the last row J changes neither text nor cursor; the mode stays Normal and
\* the pending state is cleared.
C32_Join ==
    (mode = NORMAL /\ pending_operator = "" /\ pending_motion = "" /\ ~pending_g)
    => LET r == handle_key(Cur, Ev("J"))
       IN /\ r.mode = NORMAL
          /\ Cleared(r)
          /\ IF text_area.cursor[1] < line_count(text_area.text) - 1
             THEN /\ Lines(r.ta.text) = Joined(Lines(text_area.text), text_area.cursor[1])
                  /\ line_count(r.ta.text) = line_count(text_area.text) - 1
             ELSE /\ r.ta.text = text_area.text
                  /\ r.ta.cursor = text_area.cursor

\* J after a count on "ab c" above " d" gives "ab c  d" and clears the count;
\* after G, on the last row, J leaves the text
C32_Witness ==
    /\ mode = NORMAL
    /\ text_area.cursor = <<0, 1>>
    /\ pending_count = <<"1">>
    /\ text_area.text = <<"a", "b", " ", "c", NL, " ", "d", NL>>
    /\ handle_key(Cur, Ev("J")).ta.text = <<"a", "b", " ", "c", " ", " ", "d", NL>>
    /\ handle_key(Cur, Ev("J")).pending_count = <<>>
    /\ Run(Cur, <<"G", "J">>).ta.text = text_area.text

\* C33: in Insert mode a key other than Escape is not consumed and changes
\* nothing: mode, pending fields, register, last change, text, cursor and
\* selection stay, and the mode callback is not called.
C33_InsertTouchesNothing ==
    mode = INSERT
    => \A ev \in AllEvents \ {Escape} :
           /\ handle_key(Cur, ev) = [Cur EXCEPT !.ret = "false"]
           /\ handle_key(Listening, ev).notified = <<>>
           /\ handle_key(Cur, ev).ta.cursor = text_area.cursor
           /\ handle_key(Cur, ev).ta.start = text_area.start

\* Insert mode entered with i from Normal mode after a yank, and a key was
\* passed on there
C33_Witness ==
    /\ mode = INSERT
    /\ ret = "false"
    /\ yank_buffer # <<>>
    /\ handle_key(Cur, Ev("i")).mode = INSERT
    /\ handle_key(Cur, Ev("i")).ret = "false"

\* keys no grammar branch matches: z, q, tab and enter with their characters
UnboundEvents ==
    {CharEvent("z"), CharEvent("q"), KeyEvent("enter"),
     [key |-> "tab", ch |-> "\t", late |-> FALSE],
     [key |-> "enter", ch |-> "\r", late |-> FALSE]}

\* C34: in Normal mode with no character and no second g awaited, a key that
\* matches no grammar branch is consumed, changes neither text, cursor,
\* selection, mode, register nor last change, calls no callback, and clears
\* the pending count and operator.
C34_UnboundKeysAbsorbed ==
    (mode = NORMAL /\ pending_motion = "" /\ ~pending_g)
    => \A ev \in UnboundEvents :
           /\ handle_key(Cur, ev) = [reset_pending(Cur) EXCEPT !.ret = "true"]
           /\ handle_key(Cur, ev).ta.text = text_area.text
           /\ handle_key(Cur, ev).ta.cursor = text_area.cursor
           /\ handle_key(Listening, ev).notified = <<>>

\* a count and an operator are waiting when the unbound key comes
C34_Witness ==
    /\ mode = NORMAL
    /\ pending_count = <<"1", "0">>
    /\ pending_operator = "d"
    /\ pending_motion = ""
    /\ ~pending_g
    /\ Cleared(handle_key(Cur, Ev("z")))
    /\ handle_key(Cur, Ev("z")).ret = "true"

\* C35: r followed by a character replaces the character under the cursor,
\* wherever the Normal-mode cursor is: the text keeps its length and its line
\* count, the cursor stays, the character there is the typed one, the mode is
\* Normal and the pending state is cleared.
C35_ReplaceOne ==
    (mode = NORMAL /\ pending_operator = "" /\ pending_motion = "" /\ ~pending_g)
    => \A c \in {"z", "1", " "} :
           LET r == Run(Cur, <<"r", c>>)
           IN /\ Len(r.ta.text) = Len(text_area.text)
              /\ line_count(r.ta.text) = line_count(text_area.text)
              /\ r.ta.cursor = text_area.cursor
              /\ CharAt(r.ta, OffsetOf(r.ta.text, r.ta.cursor)) = c
              /\ r.mode = NORMAL
              /\ Cleared(r)

\* the mode changes one handle_key call may make from the current state
ModeGraph ==
    \A ev \in AllEvents :
        /\ mode = INSERT /\ handle_key(Cur, ev).mode # INSERT
              => handle_key(Cur, ev).mode = NORMAL /\ ev.key = "escape"
        /\ mode = NORMAL /\ handle_key(Cur, ev).mode = VISUAL => ev.ch = "v"
        /\ mode = VISUAL /\ handle_key(Cur, ev).mode = NORMAL
              => ev.key = "escape" \/ ev.ch \in {"d", "x", "y"}
        /\ mode = VISUAL /\ handle_key(Cur, ev).mode = INSERT => ev.ch = "c"

\* key lists that lead to Normal, Insert and Visual mode
WaysOut == {<<"escape">>, <<"escape", "i">>, <<"escape", "v">>}

\* C36: the handler starts in Insert mode; one key changes the mode only from
\* Insert to Normal (Escape), from Normal to Insert, from Normal to Visual (v),
\* from Visual to Normal (Escape, d, x, y) or from Visual to Insert (c); and
\* from every reachable state each mode can be reached again.
C36_ModeTransitions ==
    /\ mode = INSERT
    /\ [](ModeGraph /\ \A m \in ViMode : \E ks \in WaysOut : Run(Cur, ks).mode = m)

\* a selection is open: c leads to Insert, d and Escape to Normal, and Visual
\* can be entered again from there
C36_Witness ==
    /\ mode = VISUAL
    /\ text_area.start # text_area.cursor
    /\ handle_key(Cur, Ev("c")).mode = INSERT
    /\ handle_key(Cur, Ev("d")).mode = NORMAL
    /\ handle_key(Cur, Escape).mode = NORMAL
    /\ handle_key(Cur, Ev("l")).mode = VISUAL
    /\ Run(Cur, <<"escape", "v">>).mode = VISUAL
    /\ Run(Cur, <<"escape", "i">>).mode = INSERT

\* C37: a pending composition exists only in Normal mode: in every reachable
\* state with mode Insert or Visual the pending operator, count, awaited
\* character and awaited second g are cleared, and every key leads to such a
\* state again.
C37_PendingOnlyInNormal ==
    /\ mode \in {INSERT, VISUAL} => Cleared(Cur)
    /\ \A k \in AllKeys :
           LET r == handle_key(Cur, Ev(k))
           IN r.mode \in {INSERT, VISUAL} => Cleared(r)

\* a change command typed after a count has entered Insert mode
C37_Witness ==
    /\ mode = INSERT
    /\ last_change = <<"cc">>
    /\ Cleared(Cur)
    /\ Cleared(handle_key(Cur, Ev("1")))
    /\ Run(Cur, <<"escape", "1", "1", "s">>).mode = INSERT
    /\ Run(Cur, <<"escape", "1", "1", "s">>).pending_count = <<>>
    /\ Run(Cur, <<"escape", "1", "1">>).pending_count = <<"1", "1">>

\* C38: when the mode-changed callback is called, the handler's mode is the
\* mode passed to it and the pending count, operator, awaited character and
\* awaited second g are already cleared, whatever key changed the mode.
C38_CallbackSeesFinalState ==
    \A ev \in AllEvents :
        \A i \in DOMAIN handle_key(Cur, ev).seen :
            /\ handle_key(Cur, ev).seen[i].mode = handle_key(Cur, ev).notified[i]
            /\ Cleared(handle_key(Cur, ev).seen[i])

\* C39: a second g and a character are never awaited together, and while one
\* of them is awaited the next key, whatever it is, ends the wait and starts
\* no other.
C39_AwaitedExclusive ==
    /\ ~(pending_g /\ pending_motion # "")
    /\ \A ev \in AllEvents :
           /\ ~(handle_key(Cur, ev).pending_g /\ handle_key(Cur, ev).pending_motion # "")
           /\ (pending_g \/ pending_motion # "")
                 => ~handle_key(Cur, ev).pending_g /\ handle_key(Cur, ev).pending_motion = ""

\* a second g is awaited after a count and an operator; f, g and r end the wait
C39_Witness ==
    /\ pending_g
    /\ pending_count # <<>>
    /\ pending_operator = "d"
    /\ handle_key(Cur, Ev("f")).pending_motion = ""
    /\ handle_key(Cur, Ev("r")).pending_motion = ""
    /\ ~handle_key(Cur, Ev("g")).pending_g
    /\ Run(Cur, <<"z", "f">>).pending_motion = "f"
    /\ Run(Cur, <<"z", "f", "g">>).pending_motion = ""
    /\ ~Run(Cur, <<"z", "f", "g">>).pending_g

\* C40: the pending count is empty or a string of decimal digits that does not
\* start with 0, so that get_count returns an integer of at least 1.
C40_CountWellFormed ==
    /\ \A i \in DOMAIN pending_count : pending_count[i] \in DecimalDigits
    /\ pending_count # <<>> => pending_count[1] # "0"
    /\ ~CountRaises(Cur)
    /\ ~CountRaises(Cur) => get_count(Cur) >= 1

====
